---------------------------- MODULE Spec2Model ----------------------------
(***************************************************************************)
(* A model of the rate limiter of src/main.py: the token-bucket script     *)
(* run by the shared store, the in-memory fallback bucket of each process, *)
(* the process-wide use_redis flag, and the rate_limit middleware, whose   *)
(* code between two awaits is one atomic step of its process (asyncio).    *)
(*                                                                         *)
(* Time is counted in whole seconds.  A token count is an exact rational   *)
(* whose denominator is the policy's window: the model stores the          *)
(* numerator, so that the stored number t stands for t / window tokens,    *)
(* "one token" is `window`, and elapsed * (max_requests / window) tokens   *)
(* is the number elapsed * max_requests.                                   *)
(***************************************************************************)
EXTENDS Integers, Sequences, FiniteSets, TLC

\* ------------------------------------------------------------- bounds
MaxTime == 2            \* the clock runs from 0 to MaxTime
MaxRequests == 2        \* requests received, over all processes

\* The processes (instances) that share the store, and the requests one
\* process set may hold in flight at a time.
Procs == {1, 2}
Slots == {1, 2}

\* What a request may carry: the X-User-ID header (absent, or one value) and
\* its path (one with limits of its own, one without).
Inputs == {<<<<>>, "/products">>, <<<<"u1">>, "/products">>, <<<<>>, "/health">>}

\* What the environment may configure: the limits of /products, the default
\* limits (window, max_requests, burst) and NUM_INSTANCES.
Policy(w, m, b) == [window |-> w, max_requests |-> m, burst |-> b]
Deployment(products, defaults, n) ==
    [products |-> products, defaults |-> defaults, num_instances |-> n]
Deployments ==
    {Deployment(Policy(1, 1, 0), Policy(2, 2, 1), 1),
     Deployment(Policy(2, 1, 0), Policy(1, 1, 1), 2),
     Deployment(Policy(2, 1, 1), Policy(1, 2, 0), 1),
     Deployment(Policy(1, 2, 1), Policy(2, 1, 0), 2),
     Deployment(Policy(2, 2, 0), Policy(1, 1, 0), 2),
     Deployment(Policy(2, 2, 1), Policy(2, 3, 2), 3)}

VARIABLES
    DEFAULTS,           \* DEFAULT_WINDOW, DEFAULT_MAX_REQUESTS, DEFAULT_BURST
    ENDPOINT_LIMITS,    \* path -> policy, for the mapped paths
    NUM_INSTANCES,
    clock,              \* the time, in seconds
    redis_store,        \* key -> [tokens, last_update, expire_at]
    started,            \* per process: startup_event has run
    use_redis,          \* per process: the health flag
    fallback_buckets,   \* per process: path -> InMemoryTokenBucket
    TOKENS_REMAINING,   \* per process: <<path, user_id>> -> gauge value
    requests,           \* slot -> the request held in it
    nreq,               \* requests received so far, counted up to MaxRequests
    test,               \* the test client's plan: endpoint, users, test_requests
    results             \* the test client's tally: <<user_id, status>> -> count

config == <<DEFAULTS, ENDPOINT_LIMITS, NUM_INSTANCES>>
vars == <<DEFAULTS, ENDPOINT_LIMITS, NUM_INSTANCES, clock, redis_store, started, use_redis, fallback_buckets, TOKENS_REMAINING, requests, nreq,
          test, results>>

Min(a, b) == IF a <= b THEN a ELSE b
EmptyMap == [x \in {} |-> 0]
Get(f, k, default) == IF k \in DOMAIN f THEN f[k] ELSE default
Put(f, k, v) == (k :> v) @@ f

\* ------------------------------------------------------ policy and key
\* ENDPOINT_LIMITS.get(path, defaults)
Limits(path) == Get(ENDPOINT_LIMITS, path, DEFAULTS)

\* request.headers.get("X-User-ID", "default")
UserId(header) == IF header = <<>> THEN "default" ELSE header[1]

\* (mutant of Key: the user is left out of the key)
KeyWithoutUser(user_id, path) == "rate:" \o path

\* f"rate:{user_id}:{path}"
Key(user_id, path) == "rate:" \o user_id \o ":" \o path

\* ------------------------------------------- the token-bucket script
\* (mutant of ScriptTokens: a new bucket starts without its burst)
ScriptTokensNoBurst(store, key, window, max_requests, burst) ==
    IF key \in DOMAIN store THEN store[key].tokens
    ELSE max_requests * window

\* redis.call('HGET', key, 'tokens') or max_requests + burst
ScriptTokens(store, key, window, max_requests, burst) ==
    IF key \in DOMAIN store THEN store[key].tokens
    ELSE (max_requests + burst) * window

\* redis.call('HGET', key, 'last_update') or now
ScriptLastUpdate(store, key, now) ==
    IF key \in DOMAIN store THEN store[key].last_update ELSE now

\* (mutant of ScriptNewTokens: the sum is not capped at the capacity)
ScriptNewTokensUncapped(tokens, elapsed, window, max_requests, burst) ==
    tokens + elapsed * max_requests

\* math.min(max_requests + burst, tokens + (elapsed * replenish_rate))
ScriptNewTokens(tokens, elapsed, window, max_requests, burst) ==
    Min((max_requests + burst) * window, tokens + elapsed * max_requests)

\* (mutant of ScriptPersist: the token is not debited)
ScriptPersistNoDebit(store, key, new_tokens, now, window) ==
    Put(store, key, [tokens |-> new_tokens,
                     last_update |-> now,
                     expire_at |-> clock + window])

\* HMSET key tokens (new_tokens - 1) last_update now; EXPIRE key window
ScriptPersist(store, key, new_tokens, now, window) ==
    Put(store, key, [tokens |-> new_tokens - window,
                     last_update |-> now,
                     expire_at |-> clock + window])

\* (mutant of TOKEN_BUCKET_SCRIPT: EXPIRE is called on a denial too)
TOKEN_BUCKET_SCRIPT_ExpireOnDeny(store, key, now, window, max_requests, burst) ==
    LET tokens == ScriptTokens(store, key, window, max_requests, burst)
        last_update == ScriptLastUpdate(store, key, now)
        elapsed == now - last_update
        new_tokens == ScriptNewTokens(tokens, elapsed, window, max_requests, burst)
    IN  IF new_tokens >= window
        THEN [ret |-> 1, store |-> ScriptPersist(store, key, new_tokens, now, window),
              fresh |-> key \notin DOMAIN store, tokens |-> tokens,
              elapsed |-> elapsed, new_tokens |-> new_tokens]
        ELSE [ret |-> 0,
              store |-> IF key \in DOMAIN store
                        THEN [store EXCEPT ![key].expire_at = clock + window]
                        ELSE store,
              fresh |-> key \notin DOMAIN store, tokens |-> tokens,
              elapsed |-> elapsed, new_tokens |-> new_tokens]

\* The script, run atomically by the store: what it returns and the store it
\* leaves, with the values of its locals (fresh: the key was absent).
TOKEN_BUCKET_SCRIPT(store, key, now, window, max_requests, burst) ==
    LET tokens == ScriptTokens(store, key, window, max_requests, burst)
        last_update == ScriptLastUpdate(store, key, now)
        elapsed == now - last_update
        new_tokens == ScriptNewTokens(tokens, elapsed, window, max_requests, burst)
    IN  IF new_tokens >= window
        THEN [ret |-> 1, store |-> ScriptPersist(store, key, new_tokens, now, window),
              fresh |-> key \notin DOMAIN store, tokens |-> tokens,
              elapsed |-> elapsed, new_tokens |-> new_tokens]
        ELSE [ret |-> 0, store |-> store,
              fresh |-> key \notin DOMAIN store, tokens |-> tokens,
              elapsed |-> elapsed, new_tokens |-> new_tokens]

\* ------------------------------------------------ the fallback bucket
\* (mutant of InMemoryTokenBucket: the limits are not divided)
InMemoryTokenBucketUndivided(max_requests, burst, window, num_instances) ==
    [max_requests |-> max_requests,
     burst |-> burst,
     window |-> window,
     buckets |-> EmptyMap]

\* (mutant of InMemoryTokenBucket: the shares are rounded up)
InMemoryTokenBucketRoundedUp(max_requests, burst, window, num_instances) ==
    [max_requests |-> (max_requests + num_instances - 1) \div num_instances,
     burst |-> (burst + num_instances - 1) \div num_instances,
     window |-> window,
     buckets |-> EmptyMap]

\* InMemoryTokenBucket.__init__
InMemoryTokenBucket(max_requests, burst, window, num_instances) ==
    [max_requests |-> max_requests \div num_instances,
     burst |-> burst \div num_instances,
     window |-> window,
     buckets |-> EmptyMap]

\* (mutant of BucketNewTokens: replenish_rate is max_requests // window)
BucketNewTokensFloorRate(bucket, tokens, elapsed) ==
    Min((bucket.max_requests + bucket.burst) * bucket.window,
        tokens + elapsed * (bucket.max_requests \div bucket.window) * bucket.window)

\* min(self.max_requests + self.burst, tokens + (elapsed * self.replenish_rate))
BucketNewTokens(bucket, tokens, elapsed) ==
    Min((bucket.max_requests + bucket.burst) * bucket.window,
        tokens + elapsed * bucket.max_requests)

\* (mutant of check_and_update: a new key starts without the burst)
check_and_update_NoBurst(bucket, key, now) ==
    LET entry == Get(bucket.buckets, key, <<bucket.max_requests * bucket.window, now>>)
        tokens == entry[1]
        last_update == entry[2]
        elapsed == now - last_update
        new_tokens == BucketNewTokens(bucket, tokens, elapsed)
    IN  IF new_tokens >= bucket.window
        THEN [ret |-> TRUE,
              bucket |-> [bucket EXCEPT
                  !.buckets = Put(@, key, <<new_tokens - bucket.window, now>>)],
              fresh |-> key \notin DOMAIN bucket.buckets, tokens |-> tokens,
              elapsed |-> elapsed, new_tokens |-> new_tokens]
        ELSE [ret |-> FALSE, bucket |-> bucket,
              fresh |-> key \notin DOMAIN bucket.buckets, tokens |-> tokens,
              elapsed |-> elapsed, new_tokens |-> new_tokens]

\* InMemoryTokenBucket.check_and_update
check_and_update(bucket, key, now) ==
    LET entry == Get(bucket.buckets, key,
                     <<(bucket.max_requests + bucket.burst) * bucket.window, now>>)
        tokens == entry[1]
        last_update == entry[2]
        elapsed == now - last_update
        new_tokens == BucketNewTokens(bucket, tokens, elapsed)
    IN  IF new_tokens >= bucket.window
        THEN [ret |-> TRUE,
              bucket |-> [bucket EXCEPT
                  !.buckets = Put(@, key, <<new_tokens - bucket.window, now>>)],
              fresh |-> key \notin DOMAIN bucket.buckets, tokens |-> tokens,
              elapsed |-> elapsed, new_tokens |-> new_tokens]
        ELSE [ret |-> FALSE, bucket |-> bucket,
              fresh |-> key \notin DOMAIN bucket.buckets, tokens |-> tokens,
              elapsed |-> elapsed, new_tokens |-> new_tokens]


\* --------------------------------------------------------- the request
\* What a run of a bucket check saw: the time it ran at, and its locals.
NoRun == [at |-> -1, fresh |-> FALSE, tokens |-> 0, elapsed |-> 0, new_tokens |-> 0]
RunOf(res) == [at |-> clock, fresh |-> res.fresh, tokens |-> res.tokens,
               elapsed |-> res.elapsed, new_tokens |-> res.new_tokens]

\* A request as rate_limit holds it.  pc is the await it is suspended at.
\* allowed is None, the store's 1 or 0, or check_and_update's True or False.
\* evalsha, hget and local record what each call of the request came to, and
\* remote_run and local_run what its bucket checks saw.
NoRequest ==
    [pc |-> "idle", proc |-> 0, user_id |-> "", path |-> "", now |-> 0,
     allowed |-> "None", tokens_left |-> 0, started_fallback |-> FALSE,
     evalsha |-> "none", hget |-> "none", local |-> "none", status |-> "none",
     remote_run |-> NoRun, local_run |-> NoRun]

\* rate_limit up to its first branch: the locals set before `if use_redis`
NewRequest(p, header, path) ==
    LET limits == Limits(path)
    IN  [NoRequest EXCEPT
            !.pc = "start", !.proc = p, !.user_id = UserId(header), !.path = path,
            !.now = clock,
            !.allowed = "None",
            !.tokens_left = (limits.max_requests + limits.burst) * limits.window,
            !.started_fallback = ~use_redis[p]]

RequestKey(req) == Key(req.user_id, req.path)

\* (mutant of Truthy: only an explicit denial is false)
TruthyUnlessDenied(allowed) == allowed \notin {"0", "False"}

\* Python's truth value of `allowed`
Truthy(allowed) == allowed \in {"1", "True"}

\* (mutant of OnRedisFailure: the flag is left as it is)
OnRedisFailureFlagKept(p) == use_redis

\* `except Exception`: use_redis = False
OnRedisFailure(p) == [use_redis EXCEPT ![p] = FALSE]

\* (mutant of OnRedisSuccess: a call that succeeds sets the flag again)
OnRedisSuccessFlagSet(p) == [use_redis EXCEPT ![p] = TRUE]

\* The `try` body when no call raises: use_redis is not assigned.
OnRedisSuccess(p) == use_redis

\* `if not use_redis`: whether the fallback section runs, given the flag
RunsFallback(flag) == ~flag

\* The fallback section of rate_limit: the route's bucket is created if absent,
\* checked, and read for tokens_left.
FallbackSection(fb, req) ==
    LET limits == Limits(req.path)
        fb1 == IF req.path \in DOMAIN fb THEN fb
               ELSE Put(fb, req.path,
                        InMemoryTokenBucket(limits.max_requests, limits.burst,
                                            limits.window, NUM_INSTANCES))
        bucket == fb1[req.path]
        key == RequestKey(req)
        res == check_and_update(bucket, key, req.now)
        left == Get(res.bucket.buckets, key,
                    <<(bucket.max_requests + bucket.burst) * bucket.window, req.now>>)[1]
    IN  [fb |-> Put(fb1, req.path, res.bucket),
         req |-> [req EXCEPT !.allowed = IF res.ret THEN "True" ELSE "False",
                             !.tokens_left = left,
                             !.local = IF res.ret THEN "True" ELSE "False",
                             !.local_run = RunOf(res)]]

\* The end of rate_limit: an indeterminate verdict is a denial; a denial
\* returns the 429 response, and an admitted request awaits the downstream
\* handler.
Verdict(req) ==
    IF Truthy(req.allowed)
    THEN [req EXCEPT !.pc = "call_next"]
    ELSE [req EXCEPT !.pc = "reject", !.status = "429"]

\* rate_limit from `if not use_redis` to its return or to `await call_next`,
\* for the request `req` of slot s, with the process's flag being `flag`.
Decide(s, req, flag) ==
    LET p == req.proc
        f == IF RunsFallback(flag)
             THEN FallbackSection(fallback_buckets[p], req)
             ELSE [fb |-> fallback_buckets[p], req |-> req]
        fin == Verdict(f.req)
    IN  /\ requests' = [requests EXCEPT ![s] = fin]
        /\ fallback_buckets' = [fallback_buckets EXCEPT ![p] = f.fb]
        /\ TOKENS_REMAINING' = [TOKENS_REMAINING EXCEPT
               ![p] = Put(@, <<req.path, req.user_id>>, fin.tokens_left)]

\* ------------------------------------------------------------ actions
\* Every call to the store either returns or raises (the store is down, the
\* connection is lost, the script is not loaded).

\* startup_event: the probe and the script load succeed (ok), or one of them
\* raises and the process starts in fallback.  The processes start one after
\* the other.
Startup(p, ok) ==
    /\ ~started[p]
    /\ \A q \in Procs : q < p => started[q]
    /\ started' = [started EXCEPT ![p] = TRUE]
    /\ use_redis' = [use_redis EXCEPT ![p] = ok]
    /\ UNCHANGED <<config, clock, redis_store, fallback_buckets,
                   TOKENS_REMAINING, requests, nreq>>

FreeSlots == {s \in Slots : requests[s].pc = "idle"}

\* rate_limit is entered, once every process is up: it suspends on evalsha,
\* or (in fallback) runs to its verdict at once.
ReceiveRequest(p, s, header, path) ==
    /\ \A q \in Procs : started[q]
    /\ s \in FreeSlots /\ \A t \in FreeSlots : s <= t
    /\ nreq' = IF nreq < MaxRequests THEN nreq + 1 ELSE nreq
    /\ LET req == NewRequest(p, header, path)
       IN  IF use_redis[p]
           THEN /\ requests' = [requests EXCEPT ![s] = [req EXCEPT !.pc = "evalsha"]]
                /\ UNCHANGED <<fallback_buckets, TOKENS_REMAINING>>
           ELSE Decide(s, req, use_redis[p])
    /\ UNCHANGED <<config, clock, redis_store, started, use_redis>>

\* `await redis_client.evalsha(...)` returns: the store has run the script.
EvalshaReturn(s) ==
    LET req == requests[s]
        limits == Limits(req.path)
        run == TOKEN_BUCKET_SCRIPT(redis_store, RequestKey(req), req.now,
                                   limits.window, limits.max_requests, limits.burst)
    IN  /\ req.pc = "evalsha"
        /\ redis_store' = run.store
        /\ requests' = [requests EXCEPT ![s] =
               [req EXCEPT !.pc = "hget",
                           !.allowed = IF run.ret = 1 THEN "1" ELSE "0",
                           !.evalsha = IF run.ret = 1 THEN "1" ELSE "0",
                           !.remote_run = RunOf(run)]]
        /\ UNCHANGED <<config, clock, started, use_redis, fallback_buckets,
                       TOKENS_REMAINING, nreq>>

\* `await redis_client.evalsha(...)` raises: the handler clears the flag and
\* rate_limit goes on to the fallback section.
EvalshaRaise(s) ==
    LET req == requests[s]
    IN  /\ req.pc = "evalsha"
        /\ use_redis' = OnRedisFailure(req.proc)
        /\ Decide(s, [req EXCEPT !.evalsha = "raised"], use_redis'[req.proc])
        /\ UNCHANGED <<config, clock, redis_store, started, nreq>>

\* `await redis_client.hget(key, "tokens")` returns; the rest of rate_limit
\* follows without another await before call_next.
HgetReturn(s) ==
    LET req == requests[s]
        limits == Limits(req.path)
        key == RequestKey(req)
        read == IF key \in DOMAIN redis_store THEN redis_store[key].tokens
                ELSE (limits.max_requests + limits.burst) * limits.window
    IN  /\ req.pc = "hget"
        /\ use_redis' = OnRedisSuccess(req.proc)
        /\ Decide(s, [req EXCEPT !.tokens_left = read, !.hget = "ok"],
                  use_redis'[req.proc])
        /\ UNCHANGED <<config, clock, redis_store, started, nreq>>

\* `await redis_client.hget(key, "tokens")` raises.
HgetRaise(s) ==
    LET req == requests[s]
    IN  /\ req.pc = "hget"
        /\ use_redis' = OnRedisFailure(req.proc)
        /\ Decide(s, [req EXCEPT !.hget = "raised"], use_redis'[req.proc])
        /\ UNCHANGED <<config, clock, redis_store, started, nreq>>

\* `await call_next(request)` returns the handler's response, which
\* rate_limit returns; the client receives it.
HandlerReturn(s) ==
    LET req == requests[s]
    IN  /\ req.pc = "call_next"
        /\ requests' = [requests EXCEPT ![s] = NoRequest]
        /\ UNCHANGED <<config, clock, redis_store, started, use_redis,
                       fallback_buckets, TOKENS_REMAINING, nreq>>

\* The 429 response that rate_limit returned reaches the client.
Rejected(s) ==
    LET req == requests[s]
    IN  /\ req.pc = "reject"
        /\ requests' = [requests EXCEPT ![s] = NoRequest]
        /\ UNCHANGED <<config, clock, redis_store, started, use_redis,
                       fallback_buckets, TOKENS_REMAINING, nreq>>

\* A second passes; the store deletes the keys whose time to live is over.
Tick ==
    /\ clock' = clock + 1
    /\ redis_store' = [k \in {j \in DOMAIN redis_store :
                                 redis_store[j].expire_at >= clock'}
                           |-> redis_store[k]]
    /\ UNCHANGED <<config, started, use_redis, fallback_buckets,
                   TOKENS_REMAINING, requests, nreq>>

\* ------------------------------------------------------ specification
\* The state after the module is loaded, under deployment d.
Loaded(d) ==
    /\ DEFAULTS = d.defaults
    /\ ENDPOINT_LIMITS = ("/products" :> d.products) @@ ("/cart" :> d.defaults)
    /\ NUM_INSTANCES = d.num_instances
    /\ clock = 0
    /\ redis_store = EmptyMap
    /\ started = [p \in Procs |-> FALSE]
    /\ use_redis = [p \in Procs |-> TRUE]
    /\ fallback_buckets = [p \in Procs |-> EmptyMap]
    /\ TOKENS_REMAINING = [p \in Procs |-> EmptyMap]
    /\ requests = [s \in Slots |-> NoRequest]
    /\ nreq = 0
    /\ results = EmptyMap

NoTest == [endpoint |-> "", users |-> {}, test_requests |-> 0]

Init ==
    /\ \E d \in Deployments : Loaded(d)
    /\ test = NoTest

\* The service under any traffic, with time passing and any call to the
\* store failing; no test client runs.
Next ==
    \/ \E p \in Procs, ok \in BOOLEAN : Startup(p, ok) /\ UNCHANGED <<test, results>>
    \/ \E p \in Procs, s \in Slots, in \in Inputs :
           /\ nreq < MaxRequests
           /\ ReceiveRequest(p, s, in[1], in[2])
           /\ UNCHANGED <<test, results>>
    \/ \E s \in Slots : EvalshaReturn(s) /\ UNCHANGED <<test, results>>
    \/ \E s \in Slots : EvalshaRaise(s) /\ UNCHANGED <<test, results>>
    \/ \E s \in Slots : HgetReturn(s) /\ UNCHANGED <<test, results>>
    \/ \E s \in Slots : HgetRaise(s) /\ UNCHANGED <<test, results>>
    \/ \E s \in Slots : HandlerReturn(s) /\ UNCHANGED <<test, results>>
    \/ \E s \in Slots : Rejected(s) /\ UNCHANGED <<test, results>>
    \/ clock < MaxTime /\ Tick /\ UNCHANGED <<test, results>>

Spec == Init /\ [][Next]_vars

\* ------------------------------------------------------ the test client
\* test_rate_limit.py: each user of the plan sends test_requests requests to
\* the endpoint, one after the other, and tallies the status of each
\* response.  No time passes (zero elapsed time) and the store is healthy
\* throughout, or unavailable from the start.
USER_ID == "test_user"
OTHER_USER_ID == "other_user"

TestPlan(endpoint, users, n) ==
    [endpoint |-> endpoint, users |-> users, test_requests |-> n]

\* The deployments tested and the plan run against each: the test file's own
\* (100 req/min + 20 burst, 130 requests), and two users side by side.
Tests ==
    {<<Deployment(Policy(60, 100, 20), Policy(60, 100, 20), 2),
       TestPlan("/products", {USER_ID}, 130)>>,
     <<Deployment(Policy(60, 100, 20), Policy(60, 50, 10), 2),
       TestPlan("/cart", {USER_ID}, 70)>>,
     <<Deployment(Policy(60, 100, 0), Policy(60, 100, 20), 1),
       TestPlan("/products", {USER_ID, OTHER_USER_ID}, 100)>>,
     <<Deployment(Policy(2, 3, 2), Policy(1, 1, 0), 2),
       TestPlan("/products", {USER_ID, OTHER_USER_ID}, 7)>>,
     <<Deployment(Policy(1, 1, 0), Policy(3, 2, 1), 3),
       TestPlan("/health", {USER_ID, OTHER_USER_ID}, 5)>>}

Tally(user_id, status) == Get(results, <<user_id, status>>, 0)
Tallied(user_id, status) ==
    Put(results, <<user_id, status>>, Tally(user_id, status) + 1)

InFlight(user_id) ==
    \E s \in Slots : requests[s].pc # "idle" /\ requests[s].user_id = user_id

\* requests.get / requests.post with the X-User-ID header, to process 1
TestSend(user_id) ==
    /\ ~InFlight(user_id)
    /\ Tally(user_id, "200") + Tally(user_id, "429") < test.test_requests
    /\ \E s \in Slots : ReceiveRequest(1, s, <<user_id>>, test.endpoint)
    /\ UNCHANGED results

\* results.append(status)
TestReceive(s) ==
    /\ \/ HandlerReturn(s)
       \/ Rejected(s)
    /\ results' = Tallied(requests[s].user_id,
                          IF requests[s].pc = "call_next" THEN "200" ELSE "429")

InitTest ==
    \E t \in Tests : Loaded(t[1]) /\ test = t[2]

NextTest ==
    \/ \E p \in Procs, ok \in BOOLEAN : Startup(p, ok) /\ UNCHANGED <<test, results>>
    \/ \E u \in test.users : TestSend(u) /\ UNCHANGED test
    \/ \E s \in Slots : EvalshaReturn(s) /\ UNCHANGED <<test, results>>
    \/ \E s \in Slots : HgetReturn(s) /\ UNCHANGED <<test, results>>
    \/ \E s \in Slots : TestReceive(s) /\ UNCHANGED test

SpecTest == InitTest /\ [][NextTest]_vars

\* ------------------------------------------------- the fleet in fallback
\* NUM_INSTANCES processes, each started with the store unavailable, serve
\* the test client's requests, which reach any of them (a load balancer in
\* front); no time passes.
FleetTests ==
    {<<Deployment(Policy(1, 3, 1), Policy(1, 1, 0), 2),
       TestPlan("/products", {USER_ID}, 5)>>,
     <<Deployment(Policy(1, 2, 2), Policy(1, 1, 0), 2),
       TestPlan("/products", {USER_ID, OTHER_USER_ID}, 5)>>,
     <<Deployment(Policy(2, 5, 3), Policy(1, 1, 1), 2),
       TestPlan("/products", {USER_ID}, 9)>>,
     <<Deployment(Policy(1, 1, 0), Policy(2, 1, 1), 2),
       TestPlan("/health", {USER_ID, OTHER_USER_ID}, 3)>>,
     <<Deployment(Policy(1, 2, 1), Policy(1, 1, 0), 1),
       TestPlan("/products", {USER_ID, OTHER_USER_ID}, 4)>>}

Instances == {p \in Procs : p <= NUM_INSTANCES}

FleetSend(user_id) ==
    /\ ~InFlight(user_id)
    /\ Tally(user_id, "200") + Tally(user_id, "429") < test.test_requests
    /\ \E p \in Instances, s \in Slots :
           ReceiveRequest(p, s, <<user_id>>, test.endpoint)
    /\ UNCHANGED results

InitFleet ==
    \E t \in FleetTests : Loaded(t[1]) /\ test = t[2]

NextFleet ==
    \/ \E p \in Procs : Startup(p, FALSE) /\ UNCHANGED <<test, results>>
    \/ \E u \in test.users : FleetSend(u) /\ UNCHANGED test
    \/ \E s \in Slots : TestReceive(s) /\ UNCHANGED test

SpecFleet == InitFleet /\ [][NextFleet]_vars

\* ------------------------------------------- clients that keep sending
\* Every process has started with the store unavailable.  Two clients each
\* send requests to process 1, one request after the other, while time
\* passes; every request sent is answered.  The user identifiers and
\* the paths are any strings: here they hold the ':' that the key is joined
\* with.
LiveInputs == {<<<<"u">>, "/a:/b">>, <<<<"u:/a">>, "/b">>}

LiveDeployments ==
    {Deployment(Policy(1, 1, 0), Policy(1, 1, 0), 1),
     Deployment(Policy(1, 1, 0), Policy(2, 2, 1), 2),
     Deployment(Policy(1, 1, 0), Policy(1, 2, 2), 1),
     Deployment(Policy(1, 1, 0), Policy(1, 1, 2), 2),
     Deployment(Policy(1, 1, 0), Policy(2, 1, 0), 2)}

LiveStartup ==
    \E p \in Procs : Startup(p, FALSE) /\ UNCHANGED <<test, results>>

LiveSend(in) ==
    /\ ~InFlight(UserId(in[1]))
    /\ \E s \in Slots : ReceiveRequest(1, s, in[1], in[2])
    /\ UNCHANGED <<test, results>>

LiveRespond(s) ==
    /\ \/ HandlerReturn(s)
       \/ Rejected(s)
    /\ UNCHANGED <<test, results>>

LiveTick == clock < MaxTime /\ Tick /\ UNCHANGED <<test, results>>

InitLive ==
    /\ \E d \in LiveDeployments : Loaded(d)
    /\ test = NoTest

NextLive ==
    \/ LiveStartup
    \/ \E in \in LiveInputs : LiveSend(in)
    \/ \E s \in Slots : LiveRespond(s)
    \/ LiveTick

SpecLive ==
    /\ InitLive /\ [][NextLive]_vars
    /\ WF_vars(LiveStartup)
    /\ \A s \in Slots : WF_vars(LiveRespond(s))
    /\ WF_vars(LiveTick)

\* ------------------------------------------ the two buckets side by side
\* The script and check_and_update given the same parameters (one instance,
\* so that the fallback's share is the whole limit) and the same checks: each
\* check (key, now) is run by the store and by process 1's fallback bucket.
\* `now` is any time up to the present.  No check follows the expiry of its
\* key in the store, that is, no gap between two admits of a key reaches
\* `window`: a key is checked while the store holds it, or before it was
\* ever admitted.
BucketDeployments ==
    {Deployment(Policy(1, 1, 2), Policy(2, 1, 1), 1),
     Deployment(Policy(2, 3, 1), Policy(1, 2, 0), 1),
     Deployment(Policy(1, 2, 1), Policy(2, 2, 0), 1)}

Unexpired(fb, path, key) ==
    IF key \in DOMAIN redis_store THEN TRUE
    ELSE IF path \notin DOMAIN fb THEN TRUE
    ELSE key \notin DOMAIN fb[path].buckets

BucketCheck(header, path, now) ==
    LET req == [NewRequest(1, header, path) EXCEPT !.now = now]
        limits == Limits(path)
        run == TOKEN_BUCKET_SCRIPT(redis_store, RequestKey(req), now,
                                   limits.window, limits.max_requests, limits.burst)
        f == FallbackSection(fallback_buckets[1], req)
    IN  /\ Unexpired(fallback_buckets[1], path, RequestKey(req))
        /\ redis_store' = run.store
        /\ fallback_buckets' = [fallback_buckets EXCEPT ![1] = f.fb]
        /\ UNCHANGED <<config, clock, started, use_redis, TOKENS_REMAINING,
                       requests, nreq>>

InitBucket ==
    /\ \E d \in BucketDeployments : Loaded(d)
    /\ test = NoTest

NextBucket ==
    \/ \E in \in Inputs, now \in 0..MaxTime :
           /\ now <= clock
           /\ BucketCheck(in[1], in[2], now)
           /\ UNCHANGED <<test, results>>
    \/ clock < MaxTime /\ Tick /\ UNCHANGED <<test, results>>

SpecBucket == InitBucket /\ [][NextBucket]_vars

\* ------------------------------------------------------------- claims
\* What the claims speak of.
UserIds == {"default", "u1", USER_ID, OTHER_USER_ID}
RoutePaths == {"/products", "/cart", "/health"}
Capacity(path) == (Limits(path).max_requests + Limits(path).burst) * Limits(path).window
BucketCapacity(bucket) == (bucket.max_requests + bucket.burst) * bucket.window
\* The request of slot s has had its remote check run, its fallback check
\* run, its verdict given.
RanRemote(s) == requests[s].evalsha \in {"1", "0"}
RanLocal(s) == requests[s].local \in {"True", "False"}
Decided(s) == requests[s].pc \in {"call_next", "reject"}
StoreFailed(s) == requests[s].evalsha = "raised" \/ requests[s].hget = "raised"

\* C1: every stored token count, of the remote bucket and of every fallback
\* bucket, is at least 0 and at most the capacity max_requests + burst of its
\* bucket.
C1_TokensWithinCapacity ==
    /\ \A u \in UserIds, path \in RoutePaths :
           Key(u, path) \in DOMAIN redis_store =>
               /\ redis_store[Key(u, path)].tokens >= 0
               /\ redis_store[Key(u, path)].tokens <= Capacity(path)
    /\ \A p \in Procs : \A path \in DOMAIN fallback_buckets[p] :
           LET bucket == fallback_buckets[p][path]
           IN  \A k \in DOMAIN bucket.buckets :
                   /\ bucket.buckets[k][1] >= 0
                   /\ bucket.buckets[k][1] <= BucketCapacity(bucket)

\* A remote check that found the sum above the capacity and capped it, and
\* a fallback bucket emptied by its checks.
C1_Witness ==
    /\ \E s \in Slots :
           /\ RanRemote(s)
           /\ requests[s].remote_run.elapsed > 0
           /\ requests[s].remote_run.tokens
                  + requests[s].remote_run.elapsed * Limits(requests[s].path).max_requests
              > Capacity(requests[s].path)
           /\ requests[s].remote_run.new_tokens = Capacity(requests[s].path)
    /\ \E p \in Procs : \E path \in DOMAIN fallback_buckets[p] :
           \E k \in DOMAIN fallback_buckets[p][path].buckets :
               fallback_buckets[p][path].buckets[k][1] = 0

\* C2: with the store healthy, a new key checked n times at one timestamp is
\* admitted (200) on the first max_requests + burst checks and denied (429)
\* on the others, and the gauge is 0 once a check was denied.
C2_FreshBucketAdmitsCapacity ==
    (started[1] /\ use_redis[1]) =>
        \A u \in test.users :
            LET n == Tally(u, "200") + Tally(u, "429")
                cap == Limits(test.endpoint).max_requests + Limits(test.endpoint).burst
            IN  /\ Tally(u, "200") = Min(n, cap)
                /\ Tally(u, "429") = n - Min(n, cap)
                /\ n > cap => TOKENS_REMAINING[1][<<test.endpoint, u>>] = 0

\* The test file's run: 130 requests, 120 answered 200 and 10 answered 429.
C2_Witness ==
    /\ use_redis[1]
    /\ Limits(test.endpoint) = Policy(60, 100, 20)
    /\ Tally(USER_ID, "200") = 120
    /\ Tally(USER_ID, "429") = 10
    /\ TOKENS_REMAINING[1][<<test.endpoint, USER_ID>>] = 0

\* C3: of two remote checks of one key that run at one instant with the same
\* timestamp, the one that finds exactly 1 token is admitted, and the other,
\* unless it found more than 1 token (before the first), is denied.
C3_NoDoubleAdmit ==
    \A s, t \in Slots :
        (/\ s # t /\ RanRemote(s) /\ RanRemote(t)
         /\ RequestKey(requests[s]) = RequestKey(requests[t])
         /\ requests[s].now = requests[t].now
         /\ requests[s].remote_run.at = requests[t].remote_run.at
         /\ requests[s].remote_run.new_tokens = Limits(requests[s].path).window)
        => /\ requests[s].evalsha = "1"
           /\ requests[t].remote_run.new_tokens <= Limits(requests[t].path).window
                  => requests[t].evalsha = "0"

\* Two concurrent requests of two processes for one key with 1 token left:
\* one is admitted, the other denied.
C3_Witness ==
    \E s, t \in Slots :
        /\ s # t /\ RanRemote(s) /\ RanRemote(t)
        /\ requests[s].proc # requests[t].proc
        /\ RequestKey(requests[s]) = RequestKey(requests[t])
        /\ requests[s].now = requests[t].now
        /\ requests[s].remote_run.at = requests[t].remote_run.at
        /\ requests[s].remote_run.new_tokens = Limits(requests[s].path).window
        /\ requests[s].evalsha = "1"
        /\ requests[t].evalsha = "0"

\* C4: a flag that is false stays false, and a request that starts while it
\* is false is decided by the fallback bucket at once, with no remote call.
C4_StartedInFallback ==
    \A s \in Slots :
        requests[s].started_fallback =>
            /\ requests[s].evalsha = "none" /\ requests[s].hget = "none"
            /\ Decided(s) /\ RanLocal(s)
            /\ requests[s].allowed = requests[s].local

\* C4: in every step a false flag stays false, a request entering while the
\* flag is false is marked as started in fallback, and every such request has
\* been decided by the fallback bucket with no remote call.
C4_FallbackIsSticky ==
    [][/\ \A p \in Procs : ~use_redis[p] => ~use_redis'[p]
       /\ \A s \in Slots :
              (requests[s].pc = "idle" /\ requests'[s].pc # "idle"
               /\ ~use_redis[requests'[s].proc])
              => requests'[s].started_fallback
       /\ C4_StartedInFallback']_vars

\* A remote call of one request has failed, and a later request of that
\* process was decided by the fallback bucket.
C4_Witness ==
    \E s, t \in Slots :
        /\ s # t /\ requests[s].proc = requests[t].proc
        /\ StoreFailed(t)
        /\ requests[s].started_fallback /\ Decided(s) /\ RanLocal(s)

\* C5: no request takes a token from the remote bucket and one from the
\* fallback bucket.
C5_OneBucketPerRequest ==
    \A s \in Slots : ~(requests[s].evalsha = "1" /\ requests[s].local = "True")

\* C6: with the store unavailable from the start, a new key checked n times
\* at one timestamp is admitted on the first
\* max_requests \div num_instances + burst \div num_instances checks and
\* denied on the others.
C6_FallbackCapacityPartitioned ==
    (started[1] /\ ~use_redis[1]) =>
        \A u \in test.users :
            LET n == Tally(u, "200") + Tally(u, "429")
                cap == (Limits(test.endpoint).max_requests \div NUM_INSTANCES)
                       + (Limits(test.endpoint).burst \div NUM_INSTANCES)
            IN  /\ Tally(u, "200") = Min(n, cap)
                /\ Tally(u, "429") = n - Min(n, cap)

\* 130 requests with two instances configured: 60 answered 200, 70 answered 429.
C6_Witness ==
    /\ ~use_redis[1]
    /\ Limits(test.endpoint) = Policy(60, 100, 20) /\ NUM_INSTANCES = 2
    /\ Tally(USER_ID, "200") = 60
    /\ Tally(USER_ID, "429") = 70

\* C7: as claimed, a depleted bucket checked `window` seconds or more after
\* its last update holds at least the policy's max_requests tokens before
\* the debit, in the remote bucket (also when the key is new or has expired)
\* and in the fallback bucket.
C7_RemoteReplenished ==
    \A s \in Slots :
        RanRemote(s) =>
            LET run == requests[s].remote_run
                limits == Limits(requests[s].path)
            IN  /\ run.fresh => run.new_tokens >= limits.max_requests * limits.window
                /\ (run.tokens < limits.window /\ run.elapsed >= limits.window)
                       => run.new_tokens >= limits.max_requests * limits.window

\* C7, as claimed: the remote bucket and the fallback bucket both hold at
\* least the policy's max_requests tokens a window after depletion.
C7_ReplenishedToMaxRequests ==
    /\ C7_RemoteReplenished
    /\ \A s \in Slots :
           RanLocal(s) =>
               LET run == requests[s].local_run
                   limits == Limits(requests[s].path)
               IN  (run.tokens < limits.window /\ run.elapsed >= limits.window)
                       => run.new_tokens >= limits.max_requests * limits.window

\* C7, amended: the fallback bucket holds at least
\* max_requests \div num_instances tokens, its own share.
C7_ReplenishedToOwnShare ==
    /\ C7_RemoteReplenished
    /\ \A s \in Slots :
           RanLocal(s) =>
               LET run == requests[s].local_run
                   limits == Limits(requests[s].path)
               IN  (run.tokens < limits.window /\ run.elapsed >= limits.window)
                       => run.new_tokens >=
                              (limits.max_requests \div NUM_INSTANCES) * limits.window

\* A fallback bucket of a process that is one of several, depleted and then
\* checked a window later.
C7_Witness ==
    \E s \in Slots :
        /\ RanLocal(s) /\ NUM_INSTANCES > 1
        /\ requests[s].local_run.tokens < Limits(requests[s].path).window
        /\ ~requests[s].local_run.fresh
        /\ requests[s].local_run.elapsed >= Limits(requests[s].path).window
        /\ requests[s].local = "True"

\* C8: a step of a request changes the stored state of no other key, in the
\* store and in the fallback buckets; so each of two users of one route is
\* admitted on its own first `capacity` checks, whatever the other sends.
BucketEntry(buckets, k) == IF k \in DOMAIN buckets THEN <<buckets[k]>> ELSE <<>>
LocalEntry(fb, path, k) ==
    IF path \in DOMAIN fb THEN BucketEntry(fb[path].buckets, k) ELSE <<>>
ActingKeys ==
    {Key(IF requests[s].pc = "idle" THEN requests'[s].user_id ELSE requests[s].user_id,
         IF requests[s].pc = "idle" THEN requests'[s].path ELSE requests[s].path) :
        s \in {t \in Slots : requests'[t] # requests[t]}}
C8_OwnCapacity ==
    started[1] =>
        \A u \in test.users :
            LET n == Tally(u, "200") + Tally(u, "429")
                limits == Limits(test.endpoint)
                cap == IF use_redis[1] THEN limits.max_requests + limits.burst
                       ELSE (limits.max_requests \div NUM_INSTANCES)
                            + (limits.burst \div NUM_INSTANCES)
            IN  Tally(u, "200") = Min(n, cap)

C9_FailureFallsBack ==
    \A s \in Slots :
        /\ requests[s].pc \in {"idle", "evalsha", "hget", "call_next", "reject"}
        /\ StoreFailed(s) =>
               /\ Decided(s) /\ RanLocal(s)
               /\ requests[s].allowed = requests[s].local
               /\ ~use_redis[requests[s].proc]
        /\ requests[s].pc = "call_next" => requests[s].status = "none"
        /\ requests[s].pc = "reject" => requests[s].status = "429"
        /\ requests[s].status = "429" => requests[s].pc = "reject"

\* One request whose evalsha raised and one whose hget raised, both decided
\* by the fallback bucket.
C9_Witness ==
    \E s, t \in Slots :
        /\ requests[s].evalsha = "raised" /\ Decided(s) /\ RanLocal(s)
        /\ requests[t].hget = "raised" /\ Decided(t) /\ RanLocal(t)

\* C10: the handler is awaited only for a request whose last bucket check
\* returned admit, and a verdict of None is answered 429.
C10_FailsClosed ==
    /\ \A s \in Slots :
           requests[s].pc = "call_next" =>
               /\ requests[s].allowed \in {"1", "True"}
               /\ IF RanLocal(s) THEN requests[s].local = "True"
                  ELSE requests[s].evalsha = "1"
    /\ \A s \in Slots :
           (Decided(s) /\ requests[s].allowed \in {"None", "0", "False"})
               => requests[s].pc = "reject" /\ requests[s].status = "429"
    /\ Verdict([NoRequest EXCEPT !.pc = "start"]).pc = "reject"
    /\ Verdict([NoRequest EXCEPT !.pc = "start"]).status = "429"

\* One request admitted to the handler and one rejected after a denial.
C10_Witness ==
    \E s, t \in Slots :
        /\ requests[s].pc = "call_next" /\ requests[s].evalsha = "1"
        /\ requests[t].pc = "reject" /\ requests[t].allowed \in {"0", "False"}

\* C11: in every step, the last_update stored for a key that stays stored
\* does not decrease, in the store and in every fallback bucket.
C11_LastUpdateMonotonic ==
    [][/\ \A k \in DOMAIN redis_store \cap DOMAIN redis_store' :
              redis_store'[k].last_update >= redis_store[k].last_update
       /\ \A p \in Procs :
              \A path \in DOMAIN fallback_buckets[p] \cap DOMAIN fallback_buckets'[p] :
                  \A k \in DOMAIN fallback_buckets[p][path].buckets :
                      fallback_buckets'[p][path].buckets[k][2]
                          >= fallback_buckets[p][path].buckets[k][2]]_vars

\* C12: in the step in which a key's time to live runs out, a check of the
\* key at that instant finds (before the debit) the same token count in the
\* store without the key as in the store with it.
C12_ExpiryEqualsReplenishment ==
    [][\A u \in UserIds, path \in RoutePaths :
           LET k == Key(u, path)
               limits == Limits(path)
           IN  (k \in DOMAIN redis_store /\ k \notin DOMAIN redis_store') =>
                   TOKEN_BUCKET_SCRIPT(redis_store', k, clock', limits.window,
                                       limits.max_requests, limits.burst).new_tokens
                       = TOKEN_BUCKET_SCRIPT(redis_store, k, clock', limits.window,
                                             limits.max_requests, limits.burst).new_tokens]_vars

\* C13: a request whose evalsha and hget both returned keeps the store's
\* verdict and the tokens it read: its fallback check has not run.
C13_RemoteVerdictStands ==
    \A s \in Slots :
        (requests[s].hget = "ok" /\ Decided(s)) =>
            /\ requests[s].local = "none"
            /\ requests[s].allowed = requests[s].evalsha

\* C14: in every step, a denied check leaves the store and the fallback
\* entry of its key as they were; an entry of the store changes only when a
\* check of its key is admitted, which stores the replenished count less one
\* token, the check's `now` and a time to live of `window`, or when the key's
\* time to live is over; an entry of a fallback bucket changes only when a
\* check of its key is admitted, which stores the replenished count less one
\* token and the check's `now`.
C14_DenyLeavesState ==
    [][/\ \A k \in DOMAIN redis_store \cup DOMAIN redis_store' :
              BucketEntry(redis_store', k) # BucketEntry(redis_store, k) =>
                  \/ /\ k \notin DOMAIN redis_store'
                     /\ redis_store[k].expire_at < clock'
                  \/ \E s \in Slots :
                         /\ requests[s].pc = "evalsha" /\ requests'[s].evalsha = "1"
                         /\ RequestKey(requests[s]) = k
                         /\ redis_store'[k] =
                                [tokens |-> requests'[s].remote_run.new_tokens
                                                - Limits(requests[s].path).window,
                                 last_update |-> requests[s].now,
                                 expire_at |-> clock + Limits(requests[s].path).window]
       /\ \A s \in Slots :
              (requests[s].pc = "evalsha" /\ requests'[s].evalsha = "0")
                  => redis_store' = redis_store
       /\ \A p \in Procs : \A path \in DOMAIN fallback_buckets'[p] :
              \A k \in DOMAIN fallback_buckets'[p][path].buckets :
                  LocalEntry(fallback_buckets'[p], path, k)
                          # LocalEntry(fallback_buckets[p], path, k) =>
                      \E s \in Slots :
                          /\ requests[s].local = "none" /\ requests'[s].local = "True"
                          /\ requests'[s].proc = p /\ requests'[s].path = path
                          /\ RequestKey(requests'[s]) = k
                          /\ fallback_buckets'[p][path].buckets[k] =
                                 <<requests'[s].local_run.new_tokens
                                       - Limits(path).window,
                                   requests'[s].now>>
       /\ \A s \in Slots :
              (requests[s].local = "none" /\ requests'[s].local = "False") =>
                  LocalEntry(fallback_buckets'[requests'[s].proc],
                             requests'[s].path, RequestKey(requests'[s]))
                      = LocalEntry(fallback_buckets[requests'[s].proc],
                                   requests'[s].path, RequestKey(requests'[s]))]_vars

\* A check denied by the store against a key that is stored, a second after
\* the key was written, and a check denied by the fallback bucket.
C14_Witness ==
    \E s, t \in Slots :
        /\ requests[s].evalsha = "0" /\ ~requests[s].remote_run.fresh
        /\ RequestKey(requests[s]) \in DOMAIN redis_store
        /\ redis_store[RequestKey(requests[s])].expire_at
               < clock + Limits(requests[s].path).window
        /\ requests[s].remote_run.at = clock
        /\ requests[t].local = "False"

\* C15: a check whose `now` is earlier than the stored last_update compares
\* to 1 a token count that is not lower than the stored one.
C15_NegativeElapsedClamped ==
    \A s \in Slots :
        /\ (RanRemote(s) /\ requests[s].remote_run.elapsed < 0)
               => requests[s].remote_run.new_tokens >= requests[s].remote_run.tokens
        /\ (RanLocal(s) /\ requests[s].local_run.elapsed < 0)
               => requests[s].local_run.new_tokens >= requests[s].local_run.tokens

\* C16: with NUM_INSTANCES processes all in fallback, the requests of one key
\* admitted with no time passing, over all the processes, are at most
\* max_requests + burst.
C16_FleetWithinGlobalCapacity ==
    \A u \in test.users :
        /\ Tally(u, "200") <= Limits(test.endpoint).max_requests
                                  + Limits(test.endpoint).burst
        /\ Tally(u, "200") <=
               NUM_INSTANCES * ((Limits(test.endpoint).max_requests \div NUM_INSTANCES)
                                + (Limits(test.endpoint).burst \div NUM_INSTANCES))

\* Two processes, each of which has admitted its whole share of a key and
\* then denied it; together they have admitted max_requests + burst.
C16_Witness ==
    /\ NUM_INSTANCES = 2
    /\ \A p \in Instances :
           /\ test.endpoint \in DOMAIN fallback_buckets[p]
           /\ Key(USER_ID, test.endpoint) \in DOMAIN fallback_buckets[p][test.endpoint].buckets
           /\ fallback_buckets[p][test.endpoint].buckets[Key(USER_ID, test.endpoint)][1] = 0
    /\ Tally(USER_ID, "200") = Limits(test.endpoint).max_requests
                                   + Limits(test.endpoint).burst
    /\ Tally(USER_ID, "429") > 0

\* The (tokens, last_update) that the store holds for key k, if any.
StoreEntry(store, k) ==
    IF k \in DOMAIN store THEN <<<<store[k].tokens, store[k].last_update>>>> ELSE <<>>

\* C17: for every key that is stored in the store, or was never checked, the
\* store and the fallback bucket hold the same (tokens, last_update), and a
\* check of the key with any `now` gets the same verdict from the script and
\* from check_and_update and leaves the same (tokens, last_update) in both.
C17_FallbackSameAsScript ==
    \A in \in Inputs, now \in 0..MaxTime :
        LET path == in[2]
            k == Key(UserId(in[1]), path)
            limits == Limits(path)
            bucket == Get(fallback_buckets[1], path,
                          InMemoryTokenBucket(limits.max_requests, limits.burst,
                                              limits.window, NUM_INSTANCES))
            run == TOKEN_BUCKET_SCRIPT(redis_store, k, now, limits.window,
                                       limits.max_requests, limits.burst)
            res == check_and_update(bucket, k, now)
        IN  (now <= clock /\ Unexpired(fallback_buckets[1], path, k)) =>
                /\ StoreEntry(redis_store, k) = BucketEntry(bucket.buckets, k)
                /\ (run.ret = 1) = res.ret
                /\ StoreEntry(run.store, k) = BucketEntry(res.bucket.buckets, k)

\* A key that both hold, emptied by admits and partly replenished since, so
\* that a check of it now is admitted and an earlier-stamped one is denied.
C17_Witness ==
    \E in \in Inputs :
        LET path == in[2]
            k == Key(UserId(in[1]), path)
        IN  /\ k \in DOMAIN redis_store
            /\ path \in DOMAIN fallback_buckets[1]
            /\ k \in DOMAIN fallback_buckets[1][path].buckets
            /\ redis_store[k].tokens < Limits(path).window
            /\ redis_store[k].last_update > 0
            /\ clock > redis_store[k].last_update
            /\ check_and_update(fallback_buckets[1][path], k, clock).ret
            /\ ~check_and_update(fallback_buckets[1][path], k,
                                 redis_store[k].last_update).ret

\* C18: the requests of one process for one key that were admitted at one
\* timestamp, with no time passing, are at most max_requests + burst.
C18_AdmitsWithinCapacity ==
    \A s \in Slots :
        requests[s].pc = "call_next" =>
            Cardinality({t \in Slots :
                            /\ requests[t].pc = "call_next"
                            /\ requests[t].proc = requests[s].proc
                            /\ RequestKey(requests[t]) = RequestKey(requests[s])
                            /\ requests[t].now = clock
                            /\ requests[s].now = clock})
                <= Limits(requests[s].path).max_requests + Limits(requests[s].path).burst

\* A request of the key was denied by the fallback bucket, at a time after
\* which a whole window can still pass; one was admitted by it.
DeniedByFallback(in) ==
    \E s \in Slots :
        /\ requests[s].pc = "reject" /\ requests[s].local = "False"
        /\ requests[s].user_id = UserId(in[1]) /\ requests[s].path = in[2]
        /\ requests[s].now + Limits(in[2]).window <= MaxTime
AdmittedByFallback(in) ==
    \E s \in Slots :
        /\ requests[s].pc = "call_next" /\ requests[s].local = "True"
        /\ requests[s].user_id = UserId(in[1]) /\ requests[s].path = in[2]

\* C19: if the client of a key keeps sending, a request of the key that the
\* fallback bucket has denied, at a time after which a whole window can still
\* pass, is followed by one that it admits.
C19_NoKeyDeniedForever ==
    \A in \in LiveInputs :
        ([]<><<LiveSend(in)>>_vars) => (DeniedByFallback(in) ~> AdmittedByFallback(in))

\* C20: two requests in flight that have the same bucket key have the same
\* user identifier and the same path.
C20_KeyInjective ==
    \A s, t \in Slots :
        (/\ requests[s].pc # "idle" /\ requests[t].pc # "idle"
         /\ RequestKey(requests[s]) = RequestKey(requests[t]))
        => /\ requests[s].user_id = requests[t].user_id
           /\ requests[s].path = requests[t].path

=============================================================================
